---------------------------- MODULE Spec2Model ----------------------------
(***************************************************************************)
(* Argument coercion of strawberry (strawberry/arguments.py):              *)
(*   StrawberryArgument.__init__ / _parse_annotated   (descriptor build)   *)
(*   convert_argument                                 (recursive coercion) *)
(*   convert_arguments                                (argument binding)   *)
(*                                                                         *)
(* Python values are tagged tuples:                                        *)
(*   <<"None">>  <<"UNSET">>  <<"int", n>>  <<"list", seq>>                *)
(*   <<"map", f>>   a wire mapping, f a function from wire keys            *)
(*   <<"obj", cls, kwargs>>   the instance built from  cls  and kwargs     *)
(* Types are tagged tuples:                                                *)
(*   <<"scalar", n>> <<"enum", n>> <<"class", n>> <<"optional", t>>        *)
(*   <<"list", t>>  <<"lazy", n>>  <<"input", n>>  <<"forward", n>>        *)
(* An input type is named, its TypeDefinition is looked up by name, so a   *)
(* self-referential (cyclic) type graph is a finite value.                 *)
(***************************************************************************)
EXTENDS Integers, Sequences, FiniteSets, TLC

\* ------------------------------------------------------------------ bounds
MaxDepth == 3      \* nesting depth of the wire values drawn
MaxLen   == 2      \* length of the wire lists drawn
MaxTags  == 2      \* number of tags after the underlying type in Annotated[...]

\* ------------------------------------------------------------------ values
None   == <<"None">>
UNSET  == <<"UNSET">>
PyInt(n) == <<"int", n>>
PyList(s)        == <<"list", s>>
Mapping(f)       == <<"map", f>>
Instance(cls, k) == <<"obj", cls, k>>

\* what a call that raised hands back: nothing
NoValue == <<"no value">>
\* the absent optional string (description=None, graphql_name=None, ...)
NoStr == "<None>"

EmptyDict == [k \in {} |-> None]

Max(a, b) == IF a >= b THEN a ELSE b

\* ------------------------------------------------------------------- types
IntT   == <<"scalar", "Int">>
DateT  == <<"scalar", "Date">>
ColorT == <<"enum", "Color">>
PlainT == <<"class", "Plain">>
StrawberryOptional(t) == <<"optional", t>>
StrawberryList(t)     == <<"list", t>>
LazyType(n)           == <<"lazy", n>>
InputT(n)             == <<"input", n>>
ForwardRef(n)         == <<"forward", n>>

Field(py, gql, t) == [python_name |-> py, graphql_name |-> gql, type |-> t]

\* The schema the calls run against: the TypeDefinition of each class that
\* carries a _type_definition attribute.
\*   Node: a self-referential input, self: Optional[Lazy -> Node]
\*   Box:  an input whose only field is renamed and holds a list of a type
\*         that has no coercion rule
TypeDefinitions ==
  [n \in {"Node", "Box"} |->
     IF n = "Node"
     THEN [is_input |-> TRUE,
           fields |-> << Field("foo_bar", NoStr, IntT),
                         Field("self", NoStr,
                               StrawberryOptional(LazyType("Node"))) >>]
     ELSE [is_input |-> TRUE,
           fields |-> << Field("item", "thing", StrawberryList(PlainT)) >>]]

\* hasattr(type_, "_type_definition")
HasTypeDefinition(type_) == type_[1] = "input"

\* LazyType.resolve_type(): the named attribute of the module it points at
resolve_type(type_) ==
  IF type_[2] = "Color" THEN ColorT ELSE InputT(type_[2])

\* is_scalar(type_, scalar_registry)
is_scalar(type_, scalar_registry) ==
  type_[1] = "scalar" /\ type_[2] \in scalar_registry

\* ------------------------------------------------------------ naming policy
PythonNames == {"foo_bar", "self", "item", "node"}

\* strawberry.utils.str_converters.to_camel_case on the names in use
to_camel_case(name) == IF name = "foo_bar" THEN "fooBar" ELSE name

\* NameConverter.get_graphql_name: the explicit name when there is one, else
\* the python name, camel-cased when auto_camel_case is on
get_graphql_name(config, obj) ==
  IF obj.graphql_name # NoStr THEN obj.graphql_name
  ELSE IF config.auto_camel_case THEN to_camel_case(obj.python_name)
  ELSE obj.python_name

from_field(config, field) == get_graphql_name(config, field)
from_argument(config, argument) == get_graphql_name(config, argument)


\* ------------------------------------------------ outcome of a Python call
\* raised: "" when the call returned, else the exception's class;
\* value:  what it returned (NoValue when it raised);
\* log:    the convert_argument calls entered and the resolve_type calls
\*         made, in execution order;
\* depth:  the deepest nesting of convert_argument frames the call reached.
Called(value, type_, config) == <<"call", value, type_, config>>
Resolved(type_, value)       == <<"resolve", type_, value>>

Returns(v, log) == [raised |-> "", value |-> v, log |-> log, depth |-> 1]
Raises(exc, log) ==
  [raised |-> exc, value |-> NoValue, log |-> log, depth |-> 1]
Nothing == [raised |-> "", value |-> NoValue, log |-> <<>>, depth |-> 0]

\* return f(...): the caller's frame on top of the callee's
ReturnCall(pre, r) ==
  [raised |-> r.raised, value |-> r.value,
   log |-> pre \o r.log, depth |-> r.depth + 1]

\* kwargs[name] = v
SetItem(kwargs, name, v) ==
  [k \in DOMAIN kwargs \cup {name} |-> IF k = name THEN v ELSE kwargs[k]]

\* ------------------------------------------------------- convert_argument
RECURSIVE convert_argument(_, _, _, _)

\* lines 147-150: [convert_argument(x, type_.of_type, ...) for x in value_list]
\* after the first n elements; an element that raises ends the comprehension
\* and the list built so far is dropped.
RECURSIVE ListComprehension(_, _, _, _, _)

\* A comprehension that builds its list back to front.
ListComprehension_Reversed(value_list, n, of_type, scalar_registry, config) ==
  IF n = 0 THEN [raised |-> "", value |-> <<>>, log |-> <<>>, depth |-> 0]
  ELSE
    LET prev == ListComprehension(value_list, n - 1, of_type,
                                  scalar_registry, config)
    IN IF prev.raised # "" THEN prev
       ELSE
         LET r == convert_argument(value_list[n], of_type,
                                   scalar_registry, config)
         IN [raised |-> r.raised,
             value  |-> IF r.raised = "" THEN <<r.value>> \o prev.value
                        ELSE NoValue,
             log    |-> prev.log \o r.log,
             depth  |-> Max(prev.depth, r.depth)]

\* A comprehension that leaves out the elements whose conversion raises and
\* returns the rest.
ListComprehension_SkipFailing(value_list, n, of_type, scalar_registry, config) ==
  IF n = 0 THEN [raised |-> "", value |-> <<>>, log |-> <<>>, depth |-> 0]
  ELSE
    LET prev == ListComprehension(value_list, n - 1, of_type,
                                  scalar_registry, config)
        r == convert_argument(value_list[n], of_type, scalar_registry, config)
    IN [raised |-> "",
        value  |-> IF r.raised = "" THEN Append(prev.value, r.value)
                   ELSE prev.value,
        log    |-> prev.log \o r.log,
        depth  |-> Max(prev.depth, r.depth)]

\* A comprehension that resolves a lazy element type once, before it iterates.
ListComprehension_EagerResolve(value_list, n, of_type, scalar_registry, config) ==
  IF n = 0
  THEN [raised |-> "", value |-> <<>>,
        log |-> IF of_type[1] = "lazy"
                THEN << Resolved(of_type, PyList(value_list)) >> ELSE <<>>,
        depth |-> 0]
  ELSE
    LET prev == ListComprehension(value_list, n - 1, of_type,
                                  scalar_registry, config)
    IN IF prev.raised # "" THEN prev
       ELSE
         LET r == convert_argument(value_list[n], of_type,
                                   scalar_registry, config)
         IN [raised |-> r.raised,
             value  |-> IF r.raised = "" THEN Append(prev.value, r.value)
                        ELSE NoValue,
             log    |-> prev.log \o r.log,
             depth  |-> Max(prev.depth, r.depth)]

ListComprehension(value_list, n, of_type, scalar_registry, config) ==
  IF n = 0 THEN [raised |-> "", value |-> <<>>, log |-> <<>>, depth |-> 0]
  ELSE
    LET prev == ListComprehension(value_list, n - 1, of_type,
                                  scalar_registry, config)
    IN IF prev.raised # "" THEN prev
       ELSE
         LET r == convert_argument(value_list[n], of_type,
                                   scalar_registry, config)
         IN [raised |-> r.raised,
             value  |-> IF r.raised = "" THEN Append(prev.value, r.value)
                        ELSE NoValue,
             log    |-> prev.log \o r.log,
             depth  |-> Max(prev.depth, r.depth)]

\* lines 168-175: the loop over type_definition.fields, after the first n
\* fields; value is the wire mapping.
RECURSIVE FieldLoop(_, _, _, _, _)

\* A loop that passes None for a field the wire mapping does not name.
FieldLoop_NullForAbsent(fields, n, value, scalar_registry, config) ==
  IF n = 0 THEN [raised |-> "", value |-> EmptyDict, log |-> <<>>, depth |-> 0]
  ELSE
    LET prev == FieldLoop(fields, n - 1, value, scalar_registry, config)
        field == fields[n]
        graphql_name == from_field(config, field)
    IN IF prev.raised # "" THEN prev
       ELSE IF graphql_name \in DOMAIN value[2]
       THEN
         LET r == convert_argument(value[2][graphql_name], field.type,
                                   scalar_registry, config)
         IN [raised |-> r.raised,
             value  |-> IF r.raised = ""
                        THEN SetItem(prev.value, field.python_name, r.value)
                        ELSE NoValue,
             log    |-> prev.log \o r.log,
             depth  |-> Max(prev.depth, r.depth)]
       ELSE [prev EXCEPT !.value = SetItem(@, field.python_name, None)]

\* A loop that hands the nested calls a fresh default configuration
\* (auto_camel_case on) instead of the one it was given.
FieldLoop_DefaultConfig(fields, n, value, scalar_registry, config) ==
  IF n = 0 THEN [raised |-> "", value |-> EmptyDict, log |-> <<>>, depth |-> 0]
  ELSE
    LET prev == FieldLoop(fields, n - 1, value, scalar_registry, config)
        field == fields[n]
        graphql_name == from_field(config, field)
    IN IF prev.raised # "" THEN prev
       ELSE IF graphql_name \in DOMAIN value[2]
       THEN
         LET r == convert_argument(value[2][graphql_name], field.type,
                                   scalar_registry,
                                   [auto_camel_case |-> TRUE])
         IN [raised |-> r.raised,
             value  |-> IF r.raised = ""
                        THEN SetItem(prev.value, field.python_name, r.value)
                        ELSE NoValue,
             log    |-> prev.log \o r.log,
             depth  |-> Max(prev.depth, r.depth)]
       ELSE prev

FieldLoop(fields, n, value, scalar_registry, config) ==
  IF n = 0 THEN [raised |-> "", value |-> EmptyDict, log |-> <<>>, depth |-> 0]
  ELSE
    LET prev == FieldLoop(fields, n - 1, value, scalar_registry, config)
        field == fields[n]
        graphql_name == from_field(config, field)
    IN IF prev.raised # "" THEN prev
       ELSE IF graphql_name \in DOMAIN value[2]
       THEN
         LET r == convert_argument(value[2][graphql_name], field.type,
                                   scalar_registry, config)
         IN [raised |-> r.raised,
             value  |-> IF r.raised = ""
                        THEN SetItem(prev.value, field.python_name, r.value)
                        ELSE NoValue,
             log    |-> prev.log \o r.log,
             depth  |-> Max(prev.depth, r.depth)]
       ELSE prev

\* lines 142-180: the dispatch on type_, for a value that is neither None
\* nor UNSET
ConvertByType(value, type_, scalar_registry, config) ==
  LET entered == << Called(value, type_, config) >> IN
  IF type_[1] = "optional"
  THEN ReturnCall(entered,
                  convert_argument(value, type_[2], scalar_registry, config))
  ELSE IF type_[1] = "list"
  THEN LET r == ListComprehension(value[2], Len(value[2]), type_[2],
                                  scalar_registry, config)
       IN [raised |-> r.raised,
           value  |-> IF r.raised = "" THEN PyList(r.value) ELSE NoValue,
           log    |-> entered \o r.log,
           depth  |-> 1 + r.depth]
  ELSE IF is_scalar(type_, scalar_registry) THEN Returns(value, entered)
  ELSE IF type_[1] = "enum" THEN Returns(value, entered)
  ELSE IF type_[1] = "lazy"
  THEN ReturnCall(entered \o << Resolved(type_, value) >>,
                  convert_argument(value, resolve_type(type_),
                                   scalar_registry, config))
  ELSE IF HasTypeDefinition(type_)
  THEN LET type_definition == TypeDefinitions[type_[2]] IN
       IF ~type_definition.is_input THEN Raises("AssertionError", entered)
       ELSE
         LET r == FieldLoop(type_definition.fields,
                            Len(type_definition.fields), value,
                            scalar_registry, config)
         IN [raised |-> r.raised,
             value  |-> IF r.raised = "" THEN Instance(type_[2], r.value)
                        ELSE NoValue,
             log    |-> entered \o r.log,
             depth  |-> 1 + r.depth]
  ELSE Raises("UnsupportedTypeError", entered)

\* A dispatch that resolves a LazyType before it looks at the value.
convert_argument_LazyFirst(value, type_, scalar_registry, config) ==
  LET entered == << Called(value, type_, config) >> IN
  IF type_[1] = "lazy"
  THEN ReturnCall(entered \o << Resolved(type_, value) >>,
                  convert_argument(value, resolve_type(type_),
                                   scalar_registry, config))
  ELSE IF value = None THEN Returns(None, entered)
  ELSE IF value = UNSET THEN Returns(UNSET, entered)
  ELSE ConvertByType(value, type_, scalar_registry, config)

\* A dispatch that unwraps Optional before it looks at the value.
convert_argument_OptionalFirst(value, type_, scalar_registry, config) ==
  LET entered == << Called(value, type_, config) >> IN
  IF type_[1] = "optional"
  THEN ReturnCall(entered,
                  convert_argument(value, type_[2], scalar_registry, config))
  ELSE IF value = None THEN Returns(None, entered)
  ELSE IF value = UNSET THEN Returns(UNSET, entered)
  ELSE ConvertByType(value, type_, scalar_registry, config)

\* A dispatch that takes UNSET for None.
convert_argument_UnsetAsNone(value, type_, scalar_registry, config) ==
  LET entered == << Called(value, type_, config) >> IN
  IF value = None \/ value = UNSET THEN Returns(None, entered)
  ELSE ConvertByType(value, type_, scalar_registry, config)

\* lines 130-180
convert_argument(value, type_, scalar_registry, config) ==
  LET entered == << Called(value, type_, config) >> IN
  IF value = None THEN Returns(None, entered)
  ELSE IF value = UNSET THEN Returns(UNSET, entered)
  ELSE ConvertByType(value, type_, scalar_registry, config)

\* ------------------------------------------------------ StrawberryArgument
\* An annotation is a type, ForwardRef(name), or Annotated[args]:
\*   <<"Annotated", <<underlying, tag, ...>>>>
\* A tag is a StrawberryArgumentAnnotation
\*   <<"argument", description, name, deprecation_reason, directives>>,
\* a StrawberryLazyReference <<"lazyref", module>>, or anything else.
Annotated(args) == <<"Annotated", args>>
StrawberryArgumentAnnotation(description, name, deprecation_reason, directives) ==
  <<"argument", description, name, deprecation_reason, directives>>
StrawberryLazyReference(module) == <<"lazyref", module>>

\* inspect.Parameter.empty
ParameterEmpty == <<"Parameter.empty">>

\* line 97: get_origin(annotation.annotation) is Annotated
annotation_is_annotated(annotation) == annotation[1] = "Annotated"

\* StrawberryLazyReference.resolve_forward_ref(ForwardRef(name))
resolve_forward_ref(tag, forward_ref) == LazyType(forward_ref[2])

\* lines 110-127: the loop over annotated_args[1:], after the first n tags;
\* value is self.
RECURSIVE ParseLoop(_, _, _)

\* A loop that lets a second StrawberryArgumentAnnotation overwrite the first.
ParseLoop_LastWins(self, annotated_args, n) ==
  IF n = 0 THEN [raised |-> "", value |-> self, seen |-> FALSE]
  ELSE
    LET prev == ParseLoop(self, annotated_args, n - 1)
        arg  == annotated_args[n + 1]
    IN IF arg[1] = "argument"
       THEN [raised |-> "",
             value |-> [prev.value EXCEPT
                          !.description = arg[2],
                          !.graphql_name = arg[3],
                          !.deprecation_reason = arg[4],
                          !.directives = arg[5]],
             seen |-> TRUE]
       ELSE IF arg[1] = "lazyref"
       THEN [prev EXCEPT !.value.type_annotation =
                           resolve_forward_ref(arg, annotated_args[1])]
       ELSE prev

ParseLoop(self, annotated_args, n) ==
  IF n = 0 THEN [raised |-> "", value |-> self, seen |-> FALSE]
  ELSE
    LET prev == ParseLoop(self, annotated_args, n - 1)
        arg  == annotated_args[n + 1]
    IN IF prev.raised # "" THEN prev
       ELSE IF arg[1] = "argument"
       THEN IF prev.seen
            THEN [raised |-> "MultipleStrawberryArgumentsError",
                  value |-> NoValue, seen |-> TRUE]
            ELSE [raised |-> "",
                  value |-> [prev.value EXCEPT
                               !.description = arg[2],
                               !.graphql_name = arg[3],
                               !.deprecation_reason = arg[4],
                               !.directives = arg[5]],
                  seen |-> TRUE]
       ELSE IF arg[1] = "lazyref"
       THEN [prev EXCEPT !.value.type_annotation =
                           resolve_forward_ref(arg, annotated_args[1])]
       ELSE prev

\* lines 99-127
parse_annotated(self) ==
  LET annotated_args == self.type_annotation[2]
      unwrapped == [self EXCEPT !.type_annotation = annotated_args[1]]
      r == ParseLoop(unwrapped, annotated_args, Len(annotated_args) - 1)
  IN [raised |-> r.raised, value |-> r.value]

\* lines 63-89: StrawberryArgument(python_name, graphql_name, type_annotation,
\*                                 description=..., default=...)
StrawberryArgument(python_name, graphql_name, type_annotation, description, default) ==
  LET self == [python_name        |-> python_name,
               graphql_name       |-> graphql_name,
               is_subscription    |-> FALSE,
               description        |-> description,
               type_annotation    |-> type_annotation,
               deprecation_reason |-> NoStr,
               directives         |-> <<>>,
               default            |-> IF default = ParameterEmpty THEN UNSET
                                      ELSE default]
  IN IF annotation_is_annotated(type_annotation)
     THEN parse_annotated(self)
     ELSE [raised |-> "", value |-> self]

\* lines 91-93: the type property, self.type_annotation.resolve(): a forward
\* reference is looked up by name, anything else is the type itself
ArgumentType(argument) ==
  IF argument.type_annotation[1] = "forward"
  THEN resolve_type(argument.type_annotation)
  ELSE argument.type_annotation

\* ------------------------------------------------------ convert_arguments
\* lines 199-212: the loop over arguments, after the first n of them
RECURSIVE ArgumentLoop(_, _, _, _, _)

\* A loop that fills in the descriptor's default for an argument the wire
\* mapping does not name.
ArgumentLoop_InsertDefault(value, arguments, n, scalar_registry, config) ==
  IF n = 0 THEN [raised |-> "", value |-> EmptyDict, log |-> <<>>, depth |-> 0]
  ELSE
    LET prev == ArgumentLoop(value, arguments, n - 1, scalar_registry, config)
        argument == arguments[n]
        name == from_argument(config, argument)
    IN IF prev.raised # "" THEN prev
       ELSE IF name \in DOMAIN value[2]
       THEN
         LET current_value == value[2][name]
             r == convert_argument(current_value, ArgumentType(argument),
                                   scalar_registry, config)
         IN [raised |-> r.raised,
             value  |-> IF r.raised = ""
                        THEN SetItem(prev.value, argument.python_name, r.value)
                        ELSE NoValue,
             log    |-> prev.log \o r.log,
             depth  |-> Max(prev.depth, r.depth)]
       ELSE [prev EXCEPT
               !.value = SetItem(@, argument.python_name, argument.default)]

ArgumentLoop(value, arguments, n, scalar_registry, config) ==
  IF n = 0 THEN [raised |-> "", value |-> EmptyDict, log |-> <<>>, depth |-> 0]
  ELSE
    LET prev == ArgumentLoop(value, arguments, n - 1, scalar_registry, config)
        argument == arguments[n]
        name == from_argument(config, argument)
    IN IF prev.raised # "" THEN prev
       ELSE IF argument.python_name = ""
       THEN [prev EXCEPT !.raised = "AssertionError", !.value = NoValue]
       ELSE IF name \in DOMAIN value[2]
       THEN
         LET current_value == value[2][name]
             r == convert_argument(current_value, ArgumentType(argument),
                                   scalar_registry, config)
         IN [raised |-> r.raised,
             value  |-> IF r.raised = ""
                        THEN SetItem(prev.value, argument.python_name, r.value)
                        ELSE NoValue,
             log    |-> prev.log \o r.log,
             depth  |-> Max(prev.depth, r.depth)]
       ELSE prev

\* lines 183-214
convert_arguments(value, arguments, scalar_registry, config) ==
  IF arguments = <<>>
  THEN [raised |-> "", value |-> EmptyDict, log |-> <<>>, depth |-> 0]
  ELSE ArgumentLoop(value, arguments, Len(arguments), scalar_registry, config)

\* ------------------------------------------------------------ inputs drawn
SeqsUpTo(S, n) == UNION {[1..k -> S] : k \in 0..n}

\* what a leaf of a wire value may be
Leaves == {None, UNSET, PyInt(1)}

\* the mappings that give each slot <<key, values>> of slots[1..n] either no
\* entry or one of its values
RECURSIVE MapsOver(_, _)
MapsOver(slots, n) ==
  IF n = 0 THEN {EmptyDict}
  ELSE LET rest == MapsOver(slots, n - 1)
       IN rest \cup {SetItem(m, slots[n][1], v) : m \in rest, v \in slots[n][2]}

RECURSIVE Values(_, _)

\* The wire keys drawn for one field: the name it has under some naming policy
\* (explicit name, camel case, python name), and the python name as a key that
\* an explicit name hides.
FieldSlots(field, d) ==
  LET vals == IF field.type[1] = "scalar" THEN {None, PyInt(1)}
              ELSE Values(field.type, d)
      camel == to_camel_case(field.python_name)
  IN IF field.graphql_name # NoStr
     THEN << <<field.graphql_name, vals>>, <<field.python_name, {PyInt(2)}>> >>
     ELSE IF camel # field.python_name
     THEN << <<camel, vals>>, <<field.python_name, {PyInt(2)}>> >>
     ELSE << <<camel, vals>> >>

RECURSIVE Slots(_, _, _)
Slots(fields, n, d) ==
  IF n = 0 THEN <<>> ELSE Slots(fields, n - 1, d) \o FieldSlots(fields[n], d)

\* the wire values of nesting depth at most d whose shape matches type_;
\* null and Unset may stand anywhere
Values(type_, d) ==
  {None, UNSET} \cup
  CASE type_[1] \in {"scalar", "enum", "class"} -> Leaves
    [] type_[1] = "optional" -> Values(type_[2], d)
    [] type_[1] = "lazy" -> Values(resolve_type(type_), d)
    [] type_[1] = "list" ->
         IF d = 0 THEN {}
         ELSE {PyList(s) : s \in SeqsUpTo(Values(type_[2], d - 1), MaxLen)}
    [] type_[1] = "input" ->
         IF d = 0 THEN {}
         ELSE LET fields == TypeDefinitions[type_[2]].fields
                  slots == Slots(fields, Len(fields), d - 1)
              IN {Mapping(m) : m \in MapsOver(slots, Len(slots))}

\* the types convert_argument is called with
CoerceTypes ==
  { IntT, DateT, ColorT, PlainT,
    StrawberryOptional(IntT), StrawberryOptional(PlainT),
    StrawberryList(IntT), StrawberryList(PlainT),
    StrawberryList(LazyType("Color")),
    StrawberryOptional(StrawberryList(IntT)),
    LazyType("Color"), LazyType("Node"), InputT("Node"),
    StrawberryOptional(LazyType("Node")), InputT("Box") }

Configs == {[auto_camel_case |-> b] : b \in BOOLEAN}
Registries == {{"Int"}, {"Int", "Date"}}

\* the tags a declaration may carry
TagDoc   == StrawberryArgumentAnnotation("doc", NoStr, NoStr, <<>>)
TagName  == StrawberryArgumentAnnotation(NoStr, "foo_bar", "old", <<"dir">>)
TagLazy  == StrawberryLazyReference("module")
TagOther == <<"other", "x">>

TagSeqs(tags) == SeqsUpTo(tags, MaxTags) \ {<<>>}

\* The resolver whose arguments are built: def resolver(foo_bar, node).
\* Declarations(i): the ways its i-th parameter may be declared.
Parameters == <<"foo_bar", "node">>

Declaration(python_name, graphql_name, type_annotation, description, default) ==
  [python_name |-> python_name, graphql_name |-> graphql_name,
   type_annotation |-> type_annotation, description |-> description,
   default |-> default]

Declarations(i) ==
  IF i = 1
  THEN {Declaration("foo_bar", g, a, "inline", dflt) :
          g \in {NoStr, "alias"},
          a \in {IntT} \cup {Annotated(<<IntT>> \o t) :
                               t \in TagSeqs({TagDoc, TagName, TagOther})},
          dflt \in {ParameterEmpty, PyInt(7)}}
  ELSE {Declaration("node", NoStr, a, NoStr, ParameterEmpty) :
          a \in {InputT("Node")} \cup
                {Annotated(<<ForwardRef("Node")>> \o t) :
                   t \in TagSeqs({TagDoc, TagLazy, TagOther})}}

\* the wire mappings convert_arguments is called with while the schema is
\* built: every key a descriptor of the resolver may go by, shallow values
WireArgs ==
  LET slots == << <<"fooBar", {None, PyInt(1)}>>,
                  <<"foo_bar", {PyInt(2)}>>,
                  <<"alias", {PyInt(3)}>>,
                  <<"node", Values(InputT("Node"), MaxDepth - 2) \ {UNSET}>> >>
  IN {Mapping(m) : m \in MapsOver(slots, Len(slots))}

\* the wire mappings a built schema is called with: values of full depth
DeepWireArgs ==
  LET slots == << <<"fooBar", {PyInt(1)}>>,
                  <<"foo_bar", {PyInt(2)}>>,
                  <<"node", Values(InputT("Node"), MaxDepth)>> >>
  IN {Mapping(m) : m \in MapsOver(slots, Len(slots))}

\* the descriptor lists of two built resolvers:
\*   def resolver(foo_bar: int, node: Annotated["Node", lazy("module")])
\*   def resolver(foo_bar: Annotated[int, argument(name="foo_bar")], node: Node)
BuiltArguments ==
  { << StrawberryArgument("foo_bar", NoStr, IntT, NoStr, ParameterEmpty).value,
       StrawberryArgument("node", NoStr,
                          Annotated(<<ForwardRef("Node"), TagLazy>>),
                          NoStr, ParameterEmpty).value >>,
    << StrawberryArgument("foo_bar", NoStr, Annotated(<<IntT, TagName>>),
                          NoStr, ParameterEmpty).value,
       StrawberryArgument("node", NoStr, InputT("Node"),
                          NoStr, ParameterEmpty).value >> }

\* ------------------------------------------------------------ state machine
VARIABLES
  config,           \* StrawberryConfig: the naming policy in force
  scalar_registry,  \* the registered scalars
  arguments,        \* the StrawberryArgument descriptors built so far
  last              \* the last call made: what it was given, what came back

vars == <<config, scalar_registry, arguments, last>>

\* no call in progress, none waiting to be read
Idle == [op |-> "none", value |-> None, type_ |-> NoValue, out |-> Nothing]

Init ==
  /\ config \in Configs
  /\ scalar_registry \in Registries
  /\ arguments = <<>>
  /\ last = Idle

\* schema build: the next parameter of the resolver becomes a descriptor,
\* unless its construction raises
Construct ==
  /\ last.op = "none"
  /\ Len(arguments) < Len(Parameters)
  /\ \E decl \in Declarations(Len(arguments) + 1) :
       LET r == StrawberryArgument(decl.python_name, decl.graphql_name,
                                   decl.type_annotation, decl.description,
                                   decl.default)
       IN /\ arguments' = IF r.raised = "" THEN Append(arguments, r.value)
                          ELSE arguments
          /\ last' = [op |-> "StrawberryArgument", value |-> decl,
                      type_ |-> NoValue,
                      out |-> [raised |-> r.raised, value |-> r.value,
                               log |-> <<>>, depth |-> 0]]
  /\ UNCHANGED <<config, scalar_registry>>

\* a resolver call: the wire arguments are bound to the descriptors
ConvertArguments ==
  /\ last.op = "none"
  /\ \E value \in WireArgs :
       last' = [op |-> "convert_arguments", value |-> value, type_ |-> NoValue,
                out |-> convert_arguments(value, arguments, scalar_registry,
                                          config)]
  /\ UNCHANGED <<config, scalar_registry, arguments>>

\* one value coerced against one type
ConvertArgument ==
  /\ last.op = "none"
  /\ \E type_ \in CoerceTypes :
       \E value \in Values(type_, MaxDepth) :
         last' = [op |-> "convert_argument", value |-> value, type_ |-> type_,
                  out |-> convert_argument(value, type_, scalar_registry,
                                           config)]
  /\ UNCHANGED <<config, scalar_registry, arguments>>

\* the caller has read the outcome (a returned value or the exception); the
\* code is synchronous and single-threaded, so the next call starts after it
Return ==
  /\ last.op # "none"
  /\ last' = Idle
  /\ UNCHANGED <<config, scalar_registry, arguments>>

Next == Construct \/ ConvertArguments \/ Return

Spec == Init /\ [][Next]_vars

\* convert_argument alone, no descriptor built
NextCoerce == ConvertArgument \/ Return

SpecCoerce == Init /\ [][NextCoerce]_vars

\* a built schema: the descriptors exist before any call and do not change
InitBuilt ==
  /\ config \in Configs
  /\ scalar_registry \in Registries
  /\ arguments \in BuiltArguments
  /\ last = Idle

ConvertArgumentsDeep ==
  /\ last.op = "none"
  /\ \E value \in DeepWireArgs :
       last' = [op |-> "convert_arguments", value |-> value, type_ |-> NoValue,
                out |-> convert_arguments(value, arguments, scalar_registry,
                                          config)]
  /\ UNCHANGED <<config, scalar_registry, arguments>>

NextBuilt == ConvertArgumentsDeep \/ Return

SpecBuilt == InitBuilt /\ [][NextBuilt]_vars

\* -------------------------------------------------------------- properties
Coerced == last.op = "convert_argument"
Binding == last.op = "convert_arguments"
Built   == last.op = "StrawberryArgument"

Leaf(v) == v = None \/ v = UNSET

\* the events of a log that are resolve_type calls
Resolutions(log) == {i \in 1..Len(log) : log[i][1] = "resolve"}

\* C1: convert_argument(None, type_) returns None for every type_, the type
\* without a coercion rule included; it raises nothing and does no
\* type-directed work: the one call is entered, nothing is resolved, no
\* nested call is made.
C1_NullShortCircuits ==
  (Coerced /\ last.value = None) =>
     /\ last.out.raised = ""
     /\ last.out.value = None
     /\ last.out.log = << Called(None, last.type_, config) >>
     /\ last.out.depth = 1

C1_Witness ==
  /\ Coerced /\ last.value = None /\ last.type_ = PlainT
  /\ last.out.raised = "" /\ last.out.value = None

\* the type under the Optional and LazyType wrappers
RECURSIVE Unwrapped(_)
Unwrapped(type_) ==
  IF type_[1] = "optional" THEN Unwrapped(type_[2])
  ELSE IF type_[1] = "lazy" THEN Unwrapped(resolve_type(type_))
  ELSE type_

\* C2: convert_argument(UNSET, type_) returns UNSET itself for every type_;
\* an UNSET list element stays UNSET at the same index of the result, and an
\* UNSET field value stays UNSET under the field's python name.
C2_UnsetPropagates ==
  Coerced =>
     /\ last.value = UNSET =>
          /\ last.out.raised = ""
          /\ last.out.value = UNSET
          /\ last.out.log = << Called(UNSET, last.type_, config) >>
     /\ (last.value[1] = "list" /\ last.out.raised = "") =>
          /\ last.out.value[1] = "list"
          /\ Len(last.out.value[2]) = Len(last.value[2])
          /\ \A i \in 1..Len(last.value[2]) :
               last.value[2][i] = UNSET => last.out.value[2][i] = UNSET
     /\ (last.value[1] = "map" /\ last.out.raised = "") =>
          LET fields == TypeDefinitions[Unwrapped(last.type_)[2]].fields IN
          /\ last.out.value[1] = "obj"
          /\ \A i \in 1..Len(fields) :
               LET name == from_field(config, fields[i]) IN
               (name \in DOMAIN last.value[2] /\ last.value[2][name] = UNSET)
                 => /\ fields[i].python_name \in DOMAIN last.out.value[3]
                    /\ last.out.value[3][fields[i].python_name] = UNSET

C2_Witness ==
  /\ Coerced
  /\ last.type_ = InputT("Node")
  /\ last.value = Mapping([k \in {"self"} |-> UNSET])
  /\ last.out.value = Instance("Node", [k \in {"self"} |-> UNSET])

\* the fields of an input type that the wire mapping names, by the name the
\* naming policy gives them
PresentFields(fields, wire, cfg) ==
  {i \in 1..Len(fields) : from_field(cfg, fields[i]) \in DOMAIN wire}

\* C4: an input object is built from exactly the fields the wire mapping
\* names: the keyword set is the python names of the declared fields whose
\* external name is a key of the mapping; an absent field is not passed at
\* all, a field given as null is passed as None.
C4_PartialKeys ==
  (Coerced /\ last.value[1] = "map" /\ last.out.raised = "") =>
     LET cls == Unwrapped(last.type_)[2]
         fields == TypeDefinitions[cls].fields
         wire == last.value[2]
         present == PresentFields(fields, wire, config)
     IN /\ last.out.value[1] = "obj"
        /\ last.out.value[2] = cls
        /\ DOMAIN last.out.value[3] = {fields[i].python_name : i \in present}
        /\ \A i \in present :
             wire[from_field(config, fields[i])] = None
               => last.out.value[3][fields[i].python_name] = None

\* {"fooBar": 1} against Node(foo_bar, self): only foo_bar is passed
C4_Witness ==
  /\ Coerced /\ config.auto_camel_case
  /\ last.type_ = InputT("Node")
  /\ last.value = Mapping([k \in {"fooBar"} |-> PyInt(1)])
  /\ last.out.value = Instance("Node", [k \in {"foo_bar"} |-> PyInt(1)])

\* C5: a list is coerced element by element, in order: the result has the
\* length of the input and at index i the coercion of element i against the
\* element type; when an element's coercion raises, so does the list's. With
\* a registered scalar as element type the result is the input sequence; the
\* empty list gives the empty list whatever the element type.
C5_ListOrderLength ==
  (Coerced /\ last.type_[1] = "list" /\ last.value[1] = "list") =>
     LET of_type == last.type_[2]
         v == last.value[2]
         elem(i) == convert_argument(v[i], of_type, scalar_registry, config)
         failing == {i \in 1..Len(v) : elem(i).raised # ""}
     IN /\ failing = {} =>
             /\ last.out.raised = ""
             /\ last.out.value[1] = "list"
             /\ Len(last.out.value[2]) = Len(v)
             /\ \A i \in 1..Len(v) : last.out.value[2][i] = elem(i).value
        /\ failing # {} =>
             /\ last.out.value = NoValue
             /\ \E i \in failing :
                  /\ \A j \in failing : i <= j
                  /\ last.out.raised = elem(i).raised
        /\ is_scalar(of_type, scalar_registry) =>
             last.out.raised = "" /\ last.out.value = last.value
        /\ v = <<>> => last.out.raised = "" /\ last.out.value = PyList(<<>>)

C5_Witness ==
  /\ Coerced
  /\ last.type_ = StrawberryList(IntT)
  /\ last.value = PyList(<<PyInt(1), None>>)
  /\ last.out.value = PyList(<<PyInt(1), None>>)

\* a type no rule of convert_argument matches
NoRule(type_) ==
  /\ type_[1] \notin {"optional", "list", "enum", "lazy"}
  /\ ~is_scalar(type_, scalar_registry)
  /\ ~HasTypeDefinition(type_)

\* the calls of a log that reach the end of the dispatch: a value that is
\* neither None nor UNSET against a type without a rule
Unmatched(log) ==
  {i \in 1..Len(log) : /\ log[i][1] = "call"
                       /\ ~Leaf(log[i][2])
                       /\ NoRule(log[i][3])}

\* C7: when the dispatch reaches a type without a rule with a value that is
\* neither None nor UNSET, at the top or nested in a list or an input object,
\* the whole call raises UnsupportedTypeError and hands back no value, no
\* part of a list or object either; that call is the last thing the
\* coercion did. No other call raises.
C7_UnsupportedAborts ==
  Coerced =>
     /\ Unmatched(last.out.log) # {} =>
          /\ last.out.raised = "UnsupportedTypeError"
          /\ last.out.value = NoValue
          /\ Unmatched(last.out.log) = {Len(last.out.log)}
     /\ Unmatched(last.out.log) = {} => last.out.raised = ""

\* Box(thing=[None, 1]): the list's second element has no rule
C7_Witness ==
  /\ Coerced
  /\ last.type_ = InputT("Box")
  /\ last.value = Mapping([k \in {"thing"} |-> PyList(<<None, PyInt(1)>>)])
  /\ last.out.raised = "UnsupportedTypeError"
  /\ last.out.value = NoValue

MaxOf(S) == IF S = {} THEN 0 ELSE CHOOSE m \in S : \A x \in S : x <= m

\* how deep the lists and mappings of a wire value nest
RECURSIVE ValueDepth(_)
ValueDepth(v) ==
  IF v[1] = "list"
  THEN 1 + MaxOf({ValueDepth(v[2][i]) : i \in 1..Len(v[2])})
  ELSE IF v[1] = "map"
  THEN 1 + MaxOf({ValueDepth(v[2][k]) : k \in DOMAIN v[2]})
  ELSE 0

NodeSelf(inner) == Mapping([k \in {"self"} |-> inner])

\* C6: against the self-referential Node (self: Optional[Lazy -> Node]) every
\* coercion of a finite wire value ends and returns; the convert_argument
\* frames nest no deeper than the value allows, three per level of the value
\* (Optional, LazyType, the input type) and one more for the outermost call,
\* whatever the cycle in the types. {"self": None} gives Node(self=None) and
\* {"self": {"self": None}} gives Node(self=Node(self=None)).
C6_SelfReferenceTerminates ==
  (Coerced /\ Unwrapped(last.type_) = InputT("Node")) =>
     /\ last.out.raised = ""
     /\ last.out.depth <= 3 * ValueDepth(last.value) + 1
     /\ Len(last.out.log) >= last.out.depth
     /\ last.value = NodeSelf(None) =>
          last.out.value = Instance("Node", [k \in {"self"} |-> None])
     /\ last.value = NodeSelf(NodeSelf(None)) =>
          last.out.value =
            Instance("Node",
                     [k \in {"self"} |->
                        Instance("Node", [j \in {"self"} |-> None])])

C6_Witness ==
  /\ Coerced
  /\ last.type_ = InputT("Node")
  /\ last.value = NodeSelf(NodeSelf(None))
  /\ last.out.raised = ""
  /\ last.out.value[3]["self"][3]["self"] = None
  /\ last.out.depth = 5

\* the calls of a log that reach the LazyType rule: a value that is neither
\* None nor UNSET against a LazyType
LazyCalls(log) ==
  {i \in 1..Len(log) : /\ log[i][1] = "call"
                       /\ ~Leaf(log[i][2])
                       /\ log[i][3][1] = "lazy"}

\* how many mappings nest under the "self" key of a Node value
RECURSIVE SelfChain(_)
SelfChain(v) ==
  IF v[1] = "map" /\ "self" \in DOMAIN v[2] /\ v[2]["self"][1] = "map"
  THEN 1 + SelfChain(v[2]["self"])
  ELSE 0

\* C10: resolve_type is called exactly where the LazyType rule is reached:
\* each resolution follows at once the call that was entered with that
\* LazyType and a value that is neither None nor UNSET, and each such call
\* resolves once. Nothing is resolved for a None or UNSET value, for a field
\* the wire mapping does not name, or for the element type of an empty list.
\* The outcome is that of coercing the value against the resolved type.
C10_LazyResolvedOnDemand ==
  Coerced =>
     LET log == last.out.log IN
     /\ \A i \in Resolutions(log) :
          /\ i > 1
          /\ ~Leaf(log[i][3])
          /\ log[i - 1] = Called(log[i][3], log[i][2], config)
     /\ Cardinality(Resolutions(log)) = Cardinality(LazyCalls(log))
     /\ Leaf(last.value) => Resolutions(log) = {}
     /\ last.value = PyList(<<>>) => Resolutions(log) = {}
     /\ last.type_ = InputT("Node") =>
          Cardinality(Resolutions(log)) = SelfChain(last.value)
     /\ (last.type_[1] = "lazy" /\ ~Leaf(last.value)) =>
          LET direct == convert_argument(last.value, resolve_type(last.type_),
                                         scalar_registry, config)
          IN /\ last.out.raised = direct.raised
             /\ last.out.value = direct.value

\* Optional[Lazy -> Node] with {"self": None}: resolved once, for the mapping,
\* not for the null under "self"
C10_Witness ==
  /\ Coerced
  /\ last.type_ = StrawberryOptional(LazyType("Node"))
  /\ last.value = NodeSelf(None)
  /\ Cardinality(Resolutions(last.out.log)) = 1
  /\ last.out.log[3] = Resolved(LazyType("Node"), NodeSelf(None))

\* the descriptors the wire mapping names, by the name the naming policy
\* gives them
PresentArguments(wire, cfg) ==
  {i \in 1..Len(arguments) : from_argument(cfg, arguments[i]) \in DOMAIN wire}

\* C3: convert_arguments keeps absent and explicit null apart. The result's
\* keys are the python names of the descriptors whose external name is a key
\* of the wire mapping; each holds the coercion of the wire value against
\* the descriptor's type, None for an explicit null; a descriptor the
\* mapping does not name gets no entry (no default, no UNSET); wire keys no
\* descriptor goes by are ignored; no descriptors, empty result.
C3_BindsPresentOnly ==
  Binding =>
     LET wire == last.value[2]
         present == PresentArguments(wire, config)
         conv(i) == convert_argument(wire[from_argument(config, arguments[i])],
                                     ArgumentType(arguments[i]),
                                     scalar_registry, config)
     IN /\ (\A i \in present : conv(i).raised = "") =>
             /\ last.out.raised = ""
             /\ DOMAIN last.out.value =
                  {arguments[i].python_name : i \in present}
             /\ \A i \in present :
                  /\ last.out.value[arguments[i].python_name] = conv(i).value
                  /\ wire[from_argument(config, arguments[i])] = None
                       => last.out.value[arguments[i].python_name] = None
        /\ (\E i \in present : conv(i).raised # "") =>
             last.out.raised # "" /\ last.out.value = NoValue
        /\ arguments = <<>> =>
             last.out.raised = "" /\ last.out.value = EmptyDict

\* resolver(foo_bar, node) called with {"fooBar": null, "alias": 3}: foo_bar
\* is None, node has no entry, "alias" is ignored
C3_Witness ==
  /\ Binding /\ config.auto_camel_case
  /\ Len(arguments) = 2
  /\ arguments[1].graphql_name = NoStr
  /\ arguments[1].default = PyInt(7)
  /\ DOMAIN last.value[2] = {"fooBar", "alias"}
  /\ last.value[2]["fooBar"] = None
  /\ last.out.raised = ""
  /\ last.out.value = [k \in {"foo_bar"} |-> None]

\* the StrawberryArgumentAnnotation tags of a declared annotation
MetadataTags(annotation) ==
  IF annotation_is_annotated(annotation)
  THEN {i \in 2..Len(annotation[2]) : annotation[2][i][1] = "argument"}
  ELSE {}

\* C8: a declaration whose Annotated tags hold two or more
\* StrawberryArgumentAnnotation makes StrawberryArgument raise
\* MultipleStrawberryArgumentsError: no descriptor comes back and none for
\* that parameter is among the descriptors convert_arguments is given. With
\* at most one such tag the construction returns the descriptor, and the one
\* tag's description, name, deprecation reason and directives are its own.
C8_TwoAnnotationsRejected ==
  Built =>
     LET decl == last.value
         tags == MetadataTags(decl.type_annotation)
     IN /\ Cardinality(tags) >= 2 =>
             /\ last.out.raised = "MultipleStrawberryArgumentsError"
             /\ last.out.value = NoValue
             /\ \A i \in 1..Len(arguments) :
                  arguments[i].python_name # decl.python_name
        /\ Cardinality(tags) <= 1 =>
             /\ last.out.raised = ""
             /\ last.out.value.python_name = decl.python_name
             /\ arguments # <<>>
             /\ arguments[Len(arguments)] = last.out.value
        /\ Cardinality(tags) = 1 =>
             LET tag == decl.type_annotation[2][CHOOSE i \in tags : TRUE]
             IN /\ last.out.value.description = tag[2]
                /\ last.out.value.graphql_name = tag[3]
                /\ last.out.value.deprecation_reason = tag[4]
                /\ last.out.value.directives = tag[5]

C8_Witness ==
  /\ Built
  /\ last.value.type_annotation = Annotated(<<IntT, TagDoc, TagName>>)
  /\ last.out.raised = "MultipleStrawberryArgumentsError"
  /\ arguments = <<>>

\* r is v coerced against type_ with every field of every input object in it
\* read under the name cfg gives the field and stored under its python name
RECURSIVE NamedBy(_, _, _, _)
NamedBy(cfg, v, type_, r) ==
  IF Leaf(v) THEN r = v
  ELSE IF type_[1] = "optional" THEN NamedBy(cfg, v, type_[2], r)
  ELSE IF type_[1] = "lazy" THEN NamedBy(cfg, v, resolve_type(type_), r)
  ELSE IF type_[1] = "list"
  THEN /\ r[1] = "list"
       /\ Len(r[2]) = Len(v[2])
       /\ \A i \in 1..Len(v[2]) : NamedBy(cfg, v[2][i], type_[2], r[2][i])
  ELSE IF type_[1] = "input"
  THEN LET fields == TypeDefinitions[type_[2]].fields
           present == PresentFields(fields, v[2], cfg)
       IN /\ r[1] = "obj"
          /\ DOMAIN r[3] = {fields[i].python_name : i \in present}
          /\ \A i \in present :
               NamedBy(cfg, v[2][from_field(cfg, fields[i])], fields[i].type,
                       r[3][fields[i].python_name])
  ELSE r = v

=============================================================================
